---- MODULE Spec2Model ----
(***************************************************************************)
(* A model of the MongoDB MCP server (class MongoDBMCPServer): the lazy    *)
(* connection (connectToMongoDB), the request handlers registered in       *)
(* setupHandlers and the decoding of the textual query fragments.          *)
(*                                                                         *)
(* Every handler is an async function: it runs from one await to the next  *)
(* without interruption, and other handlers may run while it is suspended. *)
(* One action of the model is one such uninterrupted stretch of code.      *)
(* The driver (MongoClient, Db, Collection) is the environment: each of    *)
(* its awaited calls ends in success or in an error, chosen freely.        *)
(*                                                                         *)
(* Beside the request handlers the module models the SIGINT listener and   *)
(* cleanup (SpecSigint), the redaction of the connection target for every  *)
(* target the server may be started with (SpecTargets), inferSchema as a   *)
(* loop over its sample (SpecSchema), the mongodb_query case against the   *)
(* content of a collection (SpecQuery) and the mongodb_list_collections    *)
(* case with the collStats command of every collection (SpecListing).      *)
(***************************************************************************)
EXTENDS Integers, Sequences, FiniteSets, TLC

\* ------------------------------------------------------------ bounds

\* The number of requests that may be in flight at the same time.
NumHandlers == 2
\* The largest limit / skip a request supplies (the smallest is -1).
MaxLimit == 2
\* The number of SIGINT signals the process may receive.
MaxSignals == 2
\* The largest number of documents in a sample handed to inferSchema.
MaxDocs == 4
\* The largest number of documents in the collection that is queried.
MaxStored == 4
\* The largest number of collections listCollections enumerates.
MaxCollections == 2

Handlers == 1..NumHandlers

\* ------------------------------------------------------------ JavaScript values

\* A JavaScript value: its type tag t, its text s (a sequence of tokens, for
\* a string and for a decoded JSON structure) and its number n.
Undef == [t |-> "undefined", s |-> <<>>, n |-> 0]
Null == [t |-> "null", s |-> <<>>, n |-> 0]
Str(toks) == [t |-> "string", s |-> toks, n |-> 0]
Num(k) == [t |-> "number", s |-> <<>>, n |-> k]
Bool(b) == [t |-> "boolean", s |-> <<>>, n |-> IF b THEN 1 ELSE 0]
Obj(toks) == [t |-> "object", s |-> toks, n |-> 0]
Arr(toks) == [t |-> "array", s |-> toks, n |-> 0]

\* ToBoolean, as the conditional operator and || apply it.
Truthy(v) ==
    CASE v.t = "undefined" -> FALSE
      [] v.t = "null" -> FALSE
      [] v.t = "string" -> v.s # <<>>
      [] v.t = "number" -> v.n # 0
      [] v.t = "boolean" -> v.n = 1
      [] OTHER -> TRUE

\* a || b
OrElse(a, b) == IF Truthy(a) THEN a ELSE b

\* ------------------------------------------------------------ JSON.parse

StringToks == {"\"a\"", "\"$match\"", "\"status\"", "\"shipped\"", "\"pending\""}
NumberToks == {"0", "1"}
ScalarToks == StringToks \cup NumberToks \cup {"null", "true"}

Tok(toks, i) == IF i >= 1 /\ i <= Len(toks) THEN toks[i] ELSE "<eof>"

RECURSIVE ParseValue(_, _)
RECURSIVE ParseMembers(_, _)
RECURSIVE ParseElements(_, _)

\* The position after the JSON value that starts at token i, 0 when the
\* tokens from i on start with no JSON value.
ParseValue(toks, i) ==
    LET t == Tok(toks, i) IN
    CASE t = "{" -> IF Tok(toks, i + 1) = "}" THEN i + 2 ELSE ParseMembers(toks, i + 1)
      [] t = "[" -> IF Tok(toks, i + 1) = "]" THEN i + 2 ELSE ParseElements(toks, i + 1)
      [] t \in ScalarToks -> i + 1
      [] OTHER -> 0

ParseMembers(toks, i) ==
    IF Tok(toks, i) \in StringToks /\ Tok(toks, i + 1) = ":"
    THEN LET j == ParseValue(toks, i + 2) IN
         CASE j = 0 -> 0
           [] Tok(toks, j) = "," -> ParseMembers(toks, j + 1)
           [] Tok(toks, j) = "}" -> j + 1
           [] OTHER -> 0
    ELSE 0

ParseElements(toks, i) ==
    LET j == ParseValue(toks, i) IN
    CASE j = 0 -> 0
      [] Tok(toks, j) = "," -> ParseElements(toks, j + 1)
      [] Tok(toks, j) = "]" -> j + 1
      [] OTHER -> 0

\* JSON.parse applies ToString to its argument: undefined becomes the text
\* undefined, which is no JSON.
JSONText(v) == IF v.t = "string" THEN v.s ELSE <<"undefined">>

\* JSON.parse(v) returns (does not throw a SyntaxError).
JSONParses(v) == ParseValue(JSONText(v), 1) = Len(JSONText(v)) + 1

\* What JSON.parse(v) returns when it returns.
JSONParse(v) ==
    LET toks == JSONText(v) IN
    CASE toks[1] = "{" -> Obj(toks)
      [] toks[1] = "[" -> Arr(toks)
      [] toks[1] = "null" -> Null
      [] toks[1] = "true" -> Bool(TRUE)
      [] toks[1] = "0" -> Num(0)
      [] toks[1] = "1" -> Num(1)
      [] OTHER -> Str(toks)

\* ------------------------------------------------------------ configuration

\* process.env.MONGODB_URI, as tokens; <<>> when the variable is not set.
VARIABLE env

\* process.env.MONGODB_URI || "mongodb://localhost:27017"
MONGODB_URI == IF env = <<>> THEN <<"mongodb:", "//", "localhost:27017">> ELSE env
\* process.env.MONGODB_DATABASE || "mycompany"
DATABASE_NAME == "mycompany"

\* The target is put into the output as it is.
SanitizeUri_raw(u) == u

\* MONGODB_URI.replace(/\/\/.*@/, "//***@"): the leftmost // that an @
\* follows, up to the last @ (.* is greedy), is replaced; a text without
\* such a match is returned as it is.
SanitizeUri(u) ==
    LET ats == {i \in 1..Len(u) : u[i] = "@"}
        starts == {i \in 1..Len(u) : u[i] = "//" /\ \E j \in ats : j > i}
    IN IF starts = {} THEN u
       ELSE LET a == CHOOSE i \in starts : \A k \in starts : i <= k
                z == CHOOSE j \in ats : \A k \in ats : k <= j
            IN SubSeq(u, 1, a - 1) \o <<"//", "***", "@">> \o SubSeq(u, z + 1, Len(u))

\* uri.match(/^mongodb:\/\/([^\/]+)\/(.+)$/): the address is mongodb: // then
\* one name, then / and at least one more token.
UriMatches(u) ==
    /\ Len(u) >= 5
    /\ u[1] = "mongodb:"
    /\ u[2] = "//"
    /\ u[3] \notin {"/", "//"}
    /\ u[4] = "/"

\* const [, dbName, collectionName] = match
UriDbName(u) == u[3]

\* ------------------------------------------------------------ requests

\* request.params of one incoming request: the request kind, the tool name
\* and the argument bag (an argument that is not supplied is undefined).
NoRequest ==
    [kind |-> "none", name |-> "", filter |-> Undef, projection |-> Undef,
     sort |-> Undef, pipeline |-> Undef, limit |-> Undef, skip |-> Undef,
     database |-> Undef, uri |-> <<>>, collection |-> Undef, dateField |-> Undef,
     groupBy |-> Undef, metric |-> Undef]

CallTool(name) == [NoRequest EXCEPT !.kind = "call", !.name = name]
ListResources == [NoRequest EXCEPT !.kind = "list_resources"]
ReadResource(u) == [NoRequest EXCEPT !.kind = "read_resource", !.uri = u]
ListTools == [NoRequest EXCEPT !.kind = "list_tools"]
ListPrompts == [NoRequest EXCEPT !.kind = "list_prompts"]
GetPrompt(name) == [NoRequest EXCEPT !.kind = "get_prompt", !.name = name]

\* The kinds of request whose handler has no await.
StaticKinds == {"list_tools", "list_prompts", "get_prompt"}

\* The names the switch of the GetPromptRequestSchema handler has a case for,
\* in the order of the catalog of the ListPromptsRequestSchema handler.
PromptNames == <<"analyze_collection", "find_recent_records", "aggregate_summary">>

\* The names of the catalog of the ListToolsRequestSchema handler, in order.
ToolCatalog ==
    <<"mongodb_query", "mongodb_count", "mongodb_aggregate", "mongodb_distinct",
      "mongodb_list_databases", "mongodb_list_collections",
      "mongodb_verify_connection">>

\* The get-prompt requests: every known name with its arguments supplied or
\* not (the limit as a number, as a numeric text, as another text), and a
\* name that is not known.
PromptRequests ==
    {[GetPrompt("analyze_collection") EXCEPT !.collection = c] :
        c \in {Undef, Str(<<"orders">>)}}
    \cup {[GetPrompt("find_recent_records") EXCEPT
                !.collection = c, !.dateField = d, !.limit = l] :
            c \in {Undef, Str(<<"orders">>)}, d \in {Undef, Str(<<"createdAt">>)},
            l \in {Undef, Num(MaxLimit), Str(<<"1">>), Str(<<"{", "bad">>)}}
    \cup {[GetPrompt("aggregate_summary") EXCEPT
                !.collection = c, !.groupBy = g, !.metric = x] :
            c \in {Undef, Str(<<"orders">>)}, g \in {Undef, Str(<<"status">>)},
            x \in {Undef, Str(<<>>), Str(<<"total">>)}}
    \cup {GetPrompt("drop_collection")}

\* The requests that are answered without an await.
StaticRequests == PromptRequests \cup {ListTools, ListPrompts}

\* The names the switch of the CallToolRequestSchema handler has a case for.
ToolNames ==
    {"mongodb_query", "mongodb_count", "mongodb_aggregate", "mongodb_distinct",
     "mongodb_list_databases", "mongodb_list_collections",
     "mongodb_verify_connection"}

\* The fragment texts a request may carry: not supplied, the empty text, a
\* text that is no JSON, an object, an array, a number.
FragmentTexts ==
    {Undef, Str(<<>>), Str(<<"{", "bad">>), Str(<<"{", "}">>),
     Str(<<"[", "]">>), Str(<<"1">>)}
PipelineTexts ==
    FragmentTexts \cup {Str(<<"[", "{", "\"$match\"", ":", "{", "}", "}", "]">>),
                        Str(<<"[", "1", "]">>)}
Numbers == {Undef} \cup {Num(k) : k \in -1..MaxLimit}

\* Resource addresses: of the configured database, of another database, and
\* one that is no mongodb address.
GoodAddress == <<"mongodb:", "//", DATABASE_NAME, "/", "orders">>
OtherAddress == <<"mongodb:", "//", "otherdb", "/", "orders">>
BadAddress == <<"http:", "//", DATABASE_NAME, "/", "orders">>
Addresses == {GoodAddress, OtherAddress, BadAddress}

QueryRequests ==
    {[CallTool("mongodb_query") EXCEPT !.filter = f, !.projection = p,
                                       !.sort = s, !.limit = l, !.skip = k] :
        f \in FragmentTexts, p \in FragmentTexts, s \in FragmentTexts,
        l \in Numbers, k \in Numbers}

\* Every request the model sends.
AllRequests ==
    QueryRequests
    \cup {[CallTool(n) EXCEPT !.filter = f] :
            n \in {"mongodb_count", "mongodb_distinct"}, f \in FragmentTexts}
    \cup {[CallTool("mongodb_aggregate") EXCEPT !.pipeline = p] : p \in PipelineTexts}
    \cup {[CallTool("mongodb_list_collections") EXCEPT !.database = d] :
            d \in {Undef, Str(<<"otherdb">>)}}
    \cup {CallTool("mongodb_list_databases"), CallTool("mongodb_verify_connection"),
          CallTool("mongodb_drop"), ListResources}
    \cup {ReadResource(u) : u \in Addresses}

\* The requests of the concurrent specification.
ConcRequests ==
    {CallTool("mongodb_query"), CallTool("mongodb_list_databases"),
     CallTool("mongodb_drop"), ListResources,
     ReadResource(GoodAddress), ReadResource(OtherAddress)}

\* ------------------------------------------------------------ store calls

\* One call of the driver, with the arguments handed to it.
StoreCall(op) ==
    [op |-> op, filter |-> Undef, projection |-> Undef, sort |-> Undef,
     skip |-> Undef, limit |-> Undef, pipeline |-> Undef]

\* The calls that run an operation on the store (all but connect and ping).
OperationCalls(cs) == {i \in 1..Len(cs) : cs[i].op \notin {"connect", "ping"}}

\* The errors client.connect() and the ping end in.
ConnectErrors == {"ECONNREFUSED", "ETIMEDOUT"}

\* ------------------------------------------------------------ responses

\* What a handler ends in: a returned envelope or a thrown error.
NoResult ==
    [outcome |-> "none", isError |-> FALSE, error |-> "", tool |-> "",
     message |-> "", cause |-> "", uri |-> <<>>, database |-> "",
     partial |-> FALSE, text |-> <<>>, catalog |-> <<>>]

\* The envelope returned when connectToMongoDB throws.
ConnectionFailure(cause) ==
    [NoResult EXCEPT !.outcome = "return", !.isError = TRUE,
                     !.error = "MongoDB Connection Failed",
                     !.message = "MongoDB connection failed", !.cause = cause,
                     !.uri = SanitizeUri(MONGODB_URI), !.database = DATABASE_NAME]

\* The envelope returned when the switch throws.
ExecutionFailure(name, message, cause) ==
    [NoResult EXCEPT !.outcome = "return", !.isError = TRUE,
                     !.error = "Tool Execution Failed", !.tool = name,
                     !.message = message, !.cause = cause]

\* The envelope of a tool that returns its result.
Success(name, partial) ==
    [NoResult EXCEPT !.outcome = "return", !.partial = partial,
                     !.uri = IF name \in {"mongodb_list_databases", "mongodb_verify_connection"}
                             THEN SanitizeUri(MONGODB_URI) ELSE <<>>,
                     !.database = IF name \in {"mongodb_list_databases",
                                               "mongodb_list_collections",
                                               "mongodb_verify_connection"}
                                  THEN DATABASE_NAME ELSE ""]

\* An error that leaves the handler (list-resources and read-resource have
\* no try/catch).
Raised(message, cause) ==
    [NoResult EXCEPT !.outcome = "throw", !.message = message, !.cause = cause]

\* The result of list-resources and read-resource.
Contents == [NoResult EXCEPT !.outcome = "return"]

\* The result of list-tools and list-prompts: the names of a static catalog.
Catalog(names) == [NoResult EXCEPT !.outcome = "return", !.catalog = names]

\* The result of get-prompt: one user message with the text.
Rendered(text) == [NoResult EXCEPT !.outcome = "return", !.text = text]

\* ------------------------------------------------------------ state

VARIABLES
    client,        \* this.client: NULL or the MongoClient
    db,            \* this.db: NULL or the Db of DATABASE_NAME
    connected,     \* the client's connect() has resolved
    pinged,        \* the client's ping of the admin database has resolved
    connectCalls,  \* how often client.connect() was called
    pingCalls,     \* how often the ping command was sent
    pc,            \* per handler: the await it is suspended at
    req,           \* per handler: the request it handles
    seen,          \* per handler: the connection state its request arrived in
    calls,         \* per handler: the driver calls made for its request
    response,      \* the response delivered last, none once a request arrives
    signals,       \* how many SIGINT signals the process has received
    closeCalls,    \* how often client.close() was called
    closeEnded,    \* how many of these calls have ended (resolved or rejected)
    exited,        \* "no" while the process runs, then its exit code
    documents,     \* inferSchema: its argument
    schema,        \* inferSchema: its local schema, in the order of its keys
    processed,     \* inferSchema: how many documents forEach has visited
    inferred,      \* inferSchema: "no" (not called), "running", "returned", "thrown"
    content,       \* mongodb_query: the documents of the collection, in natural order
    query,         \* mongodb_query: the arguments of the call
    reply,         \* mongodb_query: how far the case is and what it returns
    listing        \* mongodb_list_collections: how far the case is and what it returns

\* What no handler writes.
sampling == <<documents, schema, processed, inferred>>
querying == <<content, query, reply>>
outside == <<env, signals, closeCalls, closeEnded, exited, sampling, querying, listing>>

vars ==
    <<client, db, connected, pinged, connectCalls, pingCalls, pc, req, seen,
      calls, response, outside>>

NULL == "null"
CLIENT == "MongoClient"
DB == "Db"

\* A delivered response: the request, the state it arrived in, the driver
\* calls made for it and what its handler ended in.
NoResponse == [req |-> NoRequest, seen |-> "", calls |-> <<>>, result |-> NoResult]

\* The handlers suspended in connectToMongoDB (at connect or at the ping).
Connecting == {h \in Handlers : pc[h] \in {"connect", "ping"}}

\* The connection state of section 3, read off the fields of the server.
ConnectionState ==
    CASE client = NULL -> "Unconnected"
      [] db # NULL -> "Connected"
      [] Connecting # {} -> "Connecting"
      [] OTHER -> "Failed"

\* The server after its constructor.
Constructed ==
    /\ client = NULL
    /\ db = NULL
    /\ connected = FALSE
    /\ pinged = FALSE
    /\ connectCalls = 0
    /\ pingCalls = 0
    /\ pc = [h \in Handlers |-> "idle"]
    /\ req = [h \in Handlers |-> NoRequest]
    /\ seen = [h \in Handlers |-> ""]
    /\ calls = [h \in Handlers |-> <<>>]
    /\ response = NoResponse
    /\ signals = 0
    /\ closeCalls = 0
    /\ closeEnded = 0
    /\ exited = "no"

\* inferSchema is not running.
NoSample ==
    /\ documents = <<>>
    /\ schema = <<>>
    /\ processed = 0
    /\ inferred = "no"

\* What case "mongodb_query" returns: the find call it awaits or has made,
\* and count and results of its result.
NoReply == [state |-> "no", call |-> StoreCall(""), count |-> 0, results |-> <<>>]

\* No query is looked at on its own.
NoQuery ==
    /\ content = <<>>
    /\ query = NoRequest
    /\ reply = NoReply

\* Case "mongodb_list_collections": its database argument, the collections
\* listCollections enumerated, what the collStats command of each ended in
\* (stats), the entries the callbacks of map returned, and the result.
NoListing ==
    [state |-> "no", database |-> Undef, collections |-> <<>>, stats |-> <<>>,
     entries |-> <<>>, resultDatabase |-> "", totalCollections |-> 0,
     resultCollections |-> <<>>]

\* The process has not exited: its handlers can run.
Running == exited = "no"

\* The server is started with a target that embeds credentials.
Init ==
    /\ env = <<"mongodb:", "//", "user:secret", "@", "localhost:27017">>
    /\ Constructed
    /\ NoSample
    /\ NoQuery
    /\ listing = NoListing

\* ------------------------------------------------------------ connectToMongoDB

\* The guard tests the handle, which is set only after the awaits, instead of
\* the client, which is set before them.
NeedsConnect_db == db = NULL

\* Every call of connectToMongoDB connects anew.
NeedsConnect_always == TRUE

\* if (!this.client)
NeedsConnect == client = NULL

\* this.db is set before the ping is awaited, so it stays set when the ping
\* fails.
DbAfterPing_always(ok) == DB

\* this.db after the ping ended: set when it succeeded.
DbAfterPing(ok) == IF ok THEN DB ELSE db

\* What the handler of request r ends in when connectToMongoDB throws: the
\* call-tool handler catches the error, the resource handlers do not.
ConnectThrown(r, cause) ==
    IF r.kind = "call" THEN ConnectionFailure(cause)
    ELSE Raised("MongoDB connection failed", cause)

\* The handler ends: its response is delivered and it takes no further step.
Finish(h, result) ==
    /\ response' = [req |-> req[h], seen |-> seen[h], calls |-> calls[h], result |-> result]
    /\ pc' = [pc EXCEPT ![h] = "idle"]
    /\ req' = [req EXCEPT ![h] = NoRequest]
    /\ seen' = [seen EXCEPT ![h] = ""]
    /\ calls' = [calls EXCEPT ![h] = <<>>]

\* A request arrives and its handler runs to its first await, which is
\* await this.connectToMongoDB(): without a client it creates the client and
\* calls connect(), with a client connectToMongoDB returns at once.
Start(h, r) ==
    /\ Running
    /\ pc[h] = "idle"
    /\ req' = [req EXCEPT ![h] = r]
    /\ seen' = [seen EXCEPT ![h] = ConnectionState]
    /\ response' = NoResponse
    /\ IF NeedsConnect
       THEN /\ client' = CLIENT
            /\ connectCalls' = connectCalls + 1
            /\ pc' = [pc EXCEPT ![h] = "connect"]
            /\ calls' = [calls EXCEPT ![h] = <<StoreCall("connect")>>]
       ELSE /\ pc' = [pc EXCEPT ![h] = "resume"]
            /\ calls' = [calls EXCEPT ![h] = <<>>]
            /\ UNCHANGED <<client, connectCalls>>
    /\ UNCHANGED <<db, connected, pinged, pingCalls, outside>>

\* await this.client.connect() ends: the ping is sent, or the catch block
\* rethrows and the handler ends.
ConnectDone(h) ==
    /\ Running
    /\ pc[h] = "connect"
    /\ \/ /\ connected' = TRUE
          /\ pingCalls' = pingCalls + 1
          /\ pc' = [pc EXCEPT ![h] = "ping"]
          /\ calls' = [calls EXCEPT ![h] = Append(@, StoreCall("ping"))]
          /\ UNCHANGED <<req, seen, response>>
       \/ \E cause \in ConnectErrors :
            /\ Finish(h, ConnectThrown(req[h], cause))
            /\ UNCHANGED <<connected, pingCalls>>
    /\ UNCHANGED <<client, db, pinged, connectCalls, outside>>

\* await this.client.db("admin").command({ ping: 1 }) ends: this.db is set
\* and connectToMongoDB returns, or the catch block rethrows.
PingDone(h) ==
    /\ Running
    /\ pc[h] = "ping"
    /\ \/ /\ pinged' = TRUE
          /\ db' = DbAfterPing(TRUE)
          /\ pc' = [pc EXCEPT ![h] = "resume"]
          /\ UNCHANGED <<req, seen, calls, response>>
       \/ \E cause \in ConnectErrors :
            /\ db' = DbAfterPing(FALSE)
            /\ Finish(h, ConnectThrown(req[h], cause))
            /\ UNCHANGED pinged
    /\ UNCHANGED <<client, connected, connectCalls, pingCalls, outside>>

\* ------------------------------------------------------------ fragment decoding

\* limit || 100
DefaultLimit == 100
\* .limit(5) of the sample of read-resource
SampleSize == 5

EmptyObject == Obj(<<"{", "}">>)

\* The text is handed to JSON.parse whether it is supplied or not.
DecodeThrows_strict(v) == ~JSONParses(v)

\* filter ? JSON.parse(filter) : {}  throws / returns
DecodeThrows(v) == Truthy(v) /\ ~JSONParses(v)
DecodeFilter(v) == IF Truthy(v) THEN JSONParse(v) ELSE EmptyObject
\* projection ? JSON.parse(projection) : undefined  (and the same for sort)
DecodeOptional(v) == IF Truthy(v) THEN JSONParse(v) ELSE Undef

\* The supplied limit is ignored.
EffectiveLimit_default(limit) == Num(DefaultLimit)

\* .limit(limit || 100) and .skip(skip || 0)
EffectiveLimit(limit) == OrElse(limit, Num(DefaultLimit))
EffectiveSkip(skip) == OrElse(skip, Num(0))

\* ------------------------------------------------------------ the handlers

\* What a stretch of handler code ends in: an error thrown, or a driver call
\* it awaits.
NoCall == StoreCall("")
Thrown(message, cause) == [throws |-> TRUE, message |-> message, cause |-> cause, call |-> NoCall]
Issue(call) == [throws |-> FALSE, message |-> "", cause |-> "", call |-> call]

\* this.db!.collection(...) and the like on a null this.db
NullDeref == Thrown("TypeError", "Cannot read properties of null")

\* The default case throws an error that does not name the tool.
UnknownTool_anon(name) == Thrown("Unknown tool", "")

\* default: throw new Error(`Unknown tool: ${request.params.name}`)
UnknownTool(name) == Thrown("Unknown tool", name)

\* coll.find(filterObj, { projection: projectionObj }).sort(sortObj || {})
\*     .skip(skip || 0).limit(limit || 100)
FindCall(r) ==
    [StoreCall("find") EXCEPT
        !.filter = DecodeFilter(r.filter),
        !.projection = DecodeOptional(r.projection),
        !.sort = OrElse(DecodeOptional(r.sort), EmptyObject),
        !.skip = EffectiveSkip(r.skip),
        !.limit = EffectiveLimit(r.limit)]

\* The decoding of case "mongodb_query" throws.
QueryDecodeThrows(r) ==
    DecodeThrows(r.filter) \/ DecodeThrows(r.projection) \/ DecodeThrows(r.sort)

\* case "mongodb_query"
QueryStep(r) ==
    IF db = NULL THEN NullDeref
    ELSE IF QueryDecodeThrows(r) THEN Thrown("SyntaxError", "")
    ELSE Issue(FindCall(r))

\* case "mongodb_count" and case "mongodb_distinct"
FilterStep(r, op) ==
    IF db = NULL THEN NullDeref
    ELSE IF DecodeThrows(r.filter) THEN Thrown("SyntaxError", "")
    ELSE Issue([StoreCall(op) EXCEPT !.filter = DecodeFilter(r.filter)])

\* case "mongodb_aggregate"
AggregateStep(r) ==
    IF db = NULL THEN NullDeref
    ELSE IF ~JSONParses(r.pipeline) THEN Thrown("SyntaxError", "")
    ELSE Issue([StoreCall("aggregate") EXCEPT !.pipeline = JSONParse(r.pipeline)])

\* case "mongodb_list_databases"
ListDatabasesStep(r) ==
    IF client = NULL THEN NullDeref ELSE Issue(StoreCall("listDatabases"))

\* case "mongodb_list_collections"
ListCollectionsStep(r) ==
    IF Truthy(r.database)
    THEN IF client = NULL THEN NullDeref ELSE Issue(StoreCall("listCollections"))
    ELSE IF db = NULL THEN NullDeref ELSE Issue(StoreCall("listCollections"))

\* case "mongodb_verify_connection"
VerifyConnectionStep(r) ==
    IF db = NULL THEN NullDeref ELSE Issue(StoreCall("serverStatus"))

\* switch (request.params.name), to the first await of the case
ToolStep(r) ==
    CASE r.name = "mongodb_query" -> QueryStep(r)
      [] r.name = "mongodb_count" -> FilterStep(r, "countDocuments")
      [] r.name = "mongodb_aggregate" -> AggregateStep(r)
      [] r.name = "mongodb_distinct" -> FilterStep(r, "distinct")
      [] r.name = "mongodb_list_databases" -> ListDatabasesStep(r)
      [] r.name = "mongodb_list_collections" -> ListCollectionsStep(r)
      [] r.name = "mongodb_verify_connection" -> VerifyConnectionStep(r)
      [] OTHER -> UnknownTool(r.name)

\* The list-resources handler after connectToMongoDB
ListResourcesStep(r) ==
    IF db = NULL THEN NullDeref ELSE Issue(StoreCall("listCollections"))

\* The read-resource handler after connectToMongoDB, to the collStats command
ReadResourceStep(r) ==
    IF ~UriMatches(r.uri) THEN Thrown("Invalid MongoDB URI format", "")
    ELSE IF UriDbName(r.uri) # DATABASE_NAME
    THEN Thrown("Database does not match connected database", UriDbName(r.uri))
    ELSE IF db = NULL THEN NullDeref
    ELSE Issue(StoreCall("collStats"))

\* ${v} in a template literal
Shown(v) ==
    CASE v.t = "string" -> v.s
      [] v.t = "number" -> <<ToString(v.n)>>
      [] OTHER -> <<v.t>>

\* typeof limitArg === 'number' ? limitArg
\*   : (typeof limitArg === 'string' ? parseInt(limitArg, 10) : 10)
PromptLimit(limitArg) ==
    CASE limitArg.t = "number" -> <<ToString(limitArg.n)>>
      [] limitArg.t = "string" ->
            IF limitArg.s # <<>> /\ limitArg.s[1] \in NumberToks
            THEN <<limitArg.s[1]>> ELSE <<"NaN">>
      [] OTHER -> <<"10">>

\* An unknown name yields an empty prompt.
UnknownPrompt_empty(name) == Rendered(<<>>)

\* default: throw new Error(`Unknown prompt: ${name}`)
UnknownPrompt(name) == Raised("Unknown prompt", name)

\* The GetPromptRequestSchema handler: switch (name)
GetPromptStep(r) ==
    CASE r.name = "analyze_collection" ->
            Rendered(<<"Please analyze the MongoDB collection", "\"">>
                     \o Shown(r.collection)
                     \o <<"\"", "Use the mongodb_query tool to explore the data.">>)
      [] r.name = "find_recent_records" ->
            Rendered(<<"Find the">> \o PromptLimit(r.limit)
                     \o <<"most recent records from the", "\"">>
                     \o Shown(r.collection)
                     \o <<"\"", "collection, sorted by", "\"">>
                     \o Shown(r.dateField)
                     \o <<"\"", "in descending order.">>)
      [] r.name = "aggregate_summary" ->
            Rendered(<<"Create an aggregation summary for the", "\"">>
                     \o Shown(r.collection)
                     \o <<"\"", "collection, grouped by", "\"">>
                     \o Shown(r.groupBy)
                     \o <<"\"">>
                     \o (IF Truthy(r.metric)
                         THEN <<"with calculations on", "\"">> \o Shown(r.metric) \o <<"\"">>
                         ELSE <<>>)
                     \o <<"Use the mongodb_aggregate tool to perform the analysis.">>)
      [] OTHER -> UnknownPrompt(r.name)

\* The handlers that have no await: list-tools, list-prompts, get-prompt
StaticStep(r) ==
    CASE r.kind = "list_tools" -> Catalog(ToolCatalog)
      [] r.kind = "list_prompts" -> Catalog(PromptNames)
      [] OTHER -> GetPromptStep(r)

HandlerStep(r) ==
    CASE r.kind = "call" -> ToolStep(r)
      [] r.kind = "list_resources" -> ListResourcesStep(r)
      [] OTHER -> ReadResourceStep(r)

\* The switch of the call-tool handler is outside its try block: the error
\* leaves the handler.
Caught_rethrows(r, message, cause) == Raised(message, cause)

\* An error thrown in the handler of r: the call-tool handler catches it and
\* returns the execution-failure envelope, the resource handlers let it out.
Caught(r, message, cause) ==
    IF r.kind = "call" THEN ExecutionFailure(r.name, message, cause)
    ELSE Raised(message, cause)

\* What the handler of r returns when its last driver call has succeeded.
Returned(r, partial) ==
    IF r.kind = "call" THEN Success(r.name, partial) ELSE Contents

\* What a driver call ends in: a result (with or without entries) or an error.
StoreErrors == {"MongoServerError"}
StoreOutcomes == {"ok", "empty"} \cup StoreErrors

\* After the first driver call of the handler of r ended in o: the handler
\* ends (done) in result, or goes on to the driver call it awaits next.
Done(result) == [done |-> TRUE, result |-> result, call |-> NoCall]
Goes(call) == [done |-> FALSE, result |-> NoResult, call |-> call]

AfterFirst(r, o) ==
    CASE o \in StoreErrors -> Done(Caught(r, "StoreError", o))
      [] r.kind = "read_resource" ->
            Goes([StoreCall("find") EXCEPT !.filter = EmptyObject, !.limit = Num(SampleSize)])
      [] r.kind = "call" /\ r.name = "mongodb_verify_connection" -> Goes(StoreCall("stats"))
      [] r.kind = "call" /\ r.name = "mongodb_list_collections" /\ o = "ok" ->
            Goes(StoreCall("collStats"))
      [] OTHER -> Done(Returned(r, FALSE))

\* After the second driver call ended in o. The collStats of list-collections
\* are awaited inside a try/catch of their own: an error there is reported
\* inside a result that is returned as a success.
AfterSecond(r, o) ==
    CASE o \notin StoreErrors -> Returned(r, FALSE)
      [] r.kind = "call" /\ r.name = "mongodb_list_collections" -> Returned(r, TRUE)
      [] OTHER -> Caught(r, "StoreError", o)

\* await this.connectToMongoDB() has returned: the handler runs to its next
\* await or to its end.
Resume(h) ==
    /\ Running
    /\ pc[h] = "resume"
    /\ LET s == HandlerStep(req[h]) IN
       IF s.throws
       THEN Finish(h, Caught(req[h], s.message, s.cause))
       ELSE /\ pc' = [pc EXCEPT ![h] = "store1"]
            /\ calls' = [calls EXCEPT ![h] = Append(@, s.call)]
            /\ UNCHANGED <<req, seen, response>>
    /\ UNCHANGED <<client, db, connected, pinged, connectCalls, pingCalls, outside>>

\* The first driver call of the handler ends.
StoreDone(h) ==
    /\ Running
    /\ pc[h] = "store1"
    /\ \E o \in StoreOutcomes :
         LET a == AfterFirst(req[h], o) IN
         IF a.done
         THEN Finish(h, a.result)
         ELSE /\ pc' = [pc EXCEPT ![h] = "store2"]
              /\ calls' = [calls EXCEPT ![h] = Append(@, a.call)]
              /\ UNCHANGED <<req, seen, response>>
    /\ UNCHANGED <<client, db, connected, pinged, connectCalls, pingCalls, outside>>

\* The second driver call of the handler ends, and with it the handler.
Store2Done(h) ==
    /\ Running
    /\ pc[h] = "store2"
    /\ \E o \in StoreOutcomes : Finish(h, AfterSecond(req[h], o))
    /\ UNCHANGED <<client, db, connected, pinged, connectCalls, pingCalls, outside>>

\* ------------------------------------------------------------ inferSchema

\* A document, and the local object schema, is the sequence of its own
\* properties: [key, value] for a document, [key, type, examples] for schema.
Field(k, v) == [key |-> k, value |-> v]

\* Keys that are array indices, and names every object inherits from
\* Object.prototype.
IndexKeys == {"0"}
InheritedNames == {"constructor"}

IsIndexKey(e) == e.key \in IndexKeys
IsNameKey(e) == e.key \notin IndexKeys

\* The order in which Object.keys and JSON.stringify visit the properties:
\* array indices first, then the other keys in the order of their creation.
OwnKeys(o) == SelectSeq(o, IsIndexKey) \o SelectSeq(o, IsNameKey)

\* Array.isArray(value) ? "array" : value === null ? "null"
\*   : typeof value === "object" ? "object" : typeof value
TypeOf(value) ==
    CASE value.t = "array" -> "array"
      [] value.t = "null" -> "null"
      [] value.t = "object" -> "object"
      [] OTHER -> value.t

\* examples.length < 3
MaxExamples == 3

\* Every value that is not null or undefined is pushed.
Keeps_uncapped(examples, value) == value.t \notin {"null", "undefined"}

\* schema[key].examples.length < 3 && value !== null && value !== undefined
Keeps(examples, value) ==
    Len(examples) < MaxExamples /\ value.t \notin {"null", "undefined"}

\* The body of the inner forEach for the property f of a document, on the
\* outcome st of the iterations before it. schema[key] of a key that schema
\* does not own is the inherited member when the key is an inherited name:
\* !schema[key] is false then, nothing is created, and reading
\* schema[key].examples.length throws a TypeError.
AddField(st, f) ==
    IF st.throws THEN st
    ELSE LET owned == \E i \in 1..Len(st.schema) : st.schema[i].key = f.key
             found == owned \/ f.key \in InheritedNames
             created ==
                 IF found THEN st.schema
                 ELSE OwnKeys(Append(st.schema,
                          [key |-> f.key, type |-> TypeOf(f.value), examples |-> <<>>]))
         IN IF ~owned /\ found THEN [throws |-> TRUE, schema |-> st.schema]
            ELSE LET j == CHOOSE i \in 1..Len(created) : created[i].key = f.key IN
                 [throws |-> FALSE,
                  schema |-> IF Keeps(created[j].examples, f.value)
                             THEN [created EXCEPT ![j].examples = Append(@, f.value)]
                             ELSE created]

RECURSIVE AddFields(_, _, _)
\* Object.keys(doc).forEach(...) from the k-th key on
AddFields(st, fields, k) ==
    IF k > Len(fields) THEN st
    ELSE AddFields(AddField(st, fields[k]), fields, k + 1)

\* The field values of the samples.
FieldValues ==
    {Num(1), Str(<<"x">>), Null, Undef, Arr(<<"[", "1", ",", "2", "]">>), EmptyObject}

\* The documents of the samples: no field, the field a with every value,
\* three fields, the field b alone, an array index as a key, and a key
\* that is an inherited name.
SampleDocs ==
    {<<>>}
    \cup {<<Field("a", v)>> : v \in FieldValues}
    \cup {<<Field("a", Num(1)), Field("b", Str(<<"x">>)),
            Field("c", Arr(<<"[", "1", ",", "2", "]">>))>>,
          <<Field("b", Null)>>,
          <<Field("0", Num(1))>>,
          <<Field("constructor", Num(1))>>}

\* The samples: the sequences of at most MaxDocs documents.
Samples == UNION {[1..n -> SampleDocs] : n \in 0..MaxDocs}

\* inferSchema is called with a sample.
InitSchema ==
    /\ env = <<>>
    /\ Constructed
    /\ documents \in Samples
    /\ schema = <<>>
    /\ processed = 0
    /\ inferred = "running"
    /\ NoQuery
    /\ listing = NoListing

handling ==
    <<client, db, connected, pinged, connectCalls, pingCalls, pc, req, seen,
      calls, response, env, signals, closeCalls, closeEnded, exited, querying,
      listing>>

\* One iteration of documents.forEach: the properties of the next document
\* are added, or the TypeError leaves inferSchema.
InferDocument ==
    /\ inferred = "running"
    /\ processed < Len(documents)
    /\ LET st == AddFields([throws |-> FALSE, schema |-> schema],
                           OwnKeys(documents[processed + 1]), 1)
       IN IF st.throws
          THEN /\ inferred' = "thrown"
               /\ UNCHANGED <<schema, processed>>
          ELSE /\ schema' = st.schema
               /\ processed' = processed + 1
               /\ UNCHANGED inferred
    /\ UNCHANGED <<documents, handling>>

\* return schema (return {} for the empty sample)
InferReturn ==
    /\ inferred = "running"
    /\ processed = Len(documents)
    /\ inferred' = "returned"
    /\ UNCHANGED <<documents, schema, processed, handling>>

NextSchema == InferDocument \/ InferReturn

SpecSchema == InitSchema /\ [][NextSchema]_vars

\* ------------------------------------------------------------ mongodb_query

\* The collections that are queried: at most MaxStored documents in their
\* natural order, each with its _id and a status (as its JSON text).
Statuses == {"\"shipped\"", "\"pending\""}
Collections ==
    UNION {{[i \in 1..n |-> [id |-> i, status |-> f[i]]] : f \in [1..n -> Statuses]} :
              n \in 0..MaxStored}

\* The filter texts of the queries: none, the empty filter, an equality on
\* status, and a text that is no JSON.
FilterTexts ==
    {Undef, Str(<<"{", "}">>), Str(<<"{", "bad">>)}
    \cup {Str(<<"{", "\"status\"", ":", s, "}">>) : s \in Statuses}

QueryArguments ==
    {[CallTool("mongodb_query") EXCEPT !.filter = f, !.limit = l, !.skip = k] :
        f \in FilterTexts, l \in Numbers, k \in Numbers}

\* The driver: the document d matches the filter (the empty filter matches
\* every document, an equality on status those with that status).
Matches(d, filter) ==
    CASE filter.s = <<"{", "}">> -> TRUE
      [] Len(filter.s) = 5 /\ filter.s[2] = "\"status\"" -> d.status = filter.s[4]
      [] OTHER -> FALSE

\* The driver: a negative skip is rejected.
DriverRejects(call) == call.skip.n < 0

\* The driver: what find(filter).sort({}).skip(s).limit(n).toArray() resolves
\* to on the documents docs: the matching documents in natural order, without
\* the first s, and of these the first |n| (all of them for n = 0).
DriverFind(docs, call) ==
    LET Hit(d) == Matches(d, call.filter)
        hits == SelectSeq(docs, Hit)
        rest == SubSeq(hits, call.skip.n + 1, Len(hits))
        n == IF call.limit.n < 0 THEN -call.limit.n ELSE call.limit.n
    IN IF n = 0 \/ n > Len(rest) THEN rest ELSE SubSeq(rest, 1, n)

\* case "mongodb_query" is entered on a connected server with a collection
\* and the arguments of a call.
InitQuery ==
    /\ env = <<>>
    /\ Constructed
    /\ NoSample
    /\ content \in Collections
    /\ query \in QueryArguments
    /\ reply = [NoReply EXCEPT !.state = "called"]
    /\ listing = NoListing

\* The state the case does not touch.
elsewhere ==
    <<client, db, connected, pinged, connectCalls, pingCalls, pc, req, seen,
      calls, response, env, signals, closeCalls, closeEnded, exited, sampling,
      listing>>

\* The case decodes its arguments and calls find, or the decoding throws.
QueryCall ==
    /\ reply.state = "called"
    /\ reply' = IF QueryDecodeThrows(query)
                THEN [reply EXCEPT !.state = "failed"]
                ELSE [reply EXCEPT !.state = "awaiting", !.call = FindCall(query)]
    /\ UNCHANGED <<content, query, elsewhere>>

\* await ... .toArray() ends: the case returns { collection, count:
\* results.length, results }, or the error of the driver is thrown.
FindDone ==
    /\ reply.state = "awaiting"
    /\ \/ /\ ~DriverRejects(reply.call)
          /\ LET results == DriverFind(content, reply.call) IN
             reply' = [reply EXCEPT !.state = "returned", !.count = Len(results),
                                    !.results = results]
       \/ reply' = [reply EXCEPT !.state = "failed"]
    /\ UNCHANGED <<content, query, elsewhere>>

NextQuery == QueryCall \/ FindDone

SpecQuery == InitQuery /\ [][NextQuery]_vars

\* ------------------------------------------------------------ mongodb_list_collections

\* The descriptors listCollections may enumerate, and its enumerations: at
\* most MaxCollections descriptors, each once.
CollectionInfos ==
    {[name |-> "orders", type |-> "collection"],
     [name |-> "users", type |-> "collection"],
     [name |-> "report", type |-> "view"]}
Enumerations ==
    UNION {{s \in [1..n -> CollectionInfos] : \A i, j \in 1..n : s[i] = s[j] => i = j} :
              n \in 0..MaxCollections}

\* What the collStats command resolves to: the three numbers, or a document
\* without them.
StatsReplies ==
    {[count |-> Num(2), size |-> Num(1), avgObjSize |-> Num(1)],
     [count |-> Undef, size |-> Undef, avgObjSize |-> Undef]}
NoStats == [count |-> Undef, size |-> Undef, avgObjSize |-> Undef]

\* The failure of the command is passed over: the entry shows no documents.
FailedEntry_zero(col) ==
    [name |-> col.name, type |-> col.type, count |-> Num(0), size |-> Num(0),
     avgObjSize |-> Num(0), error |-> ""]

\* catch: return { name, type, error: "Could not retrieve stats" }
FailedEntry(col) ==
    [name |-> col.name, type |-> col.type, count |-> Undef, size |-> Undef,
     avgObjSize |-> Undef, error |-> "Could not retrieve stats"]

\* return { name, type, count: stats.count || 0, size: stats.size || 0,
\*          avgObjSize: stats.avgObjSize || 0 }
StatsEntry(col, stats) ==
    [name |-> col.name, type |-> col.type, count |-> OrElse(stats.count, Num(0)),
     size |-> OrElse(stats.size, Num(0)),
     avgObjSize |-> OrElse(stats.avgObjSize, Num(0)), error |-> ""]

\* The entry of a callback that has not returned yet.
NoEntry ==
    [name |-> "", type |-> "", count |-> Undef, size |-> Undef,
     avgObjSize |-> Undef, error |-> ""]

\* The case is entered on a connected server, with or without the database
\* argument.
InitListing ==
    /\ env = <<>>
    /\ Constructed
    /\ NoSample
    /\ NoQuery
    /\ \E d \in {Undef, Str(<<>>), Str(<<"otherdb">>)} :
          listing = [NoListing EXCEPT !.state = "listing", !.database = d]

\* The state the case does not touch.
apart ==
    <<client, db, connected, pinged, connectCalls, pingCalls, pc, req, seen,
      calls, response, env, signals, closeCalls, closeEnded, exited, sampling,
      querying>>

\* await targetDb.listCollections().toArray() ends: map starts one callback
\* for every collection, each of which sends its collStats command; or the
\* error is thrown out of the case.
ListCollectionsDone ==
    /\ listing.state = "listing"
    /\ \/ \E cols \in Enumerations :
            listing' = [listing EXCEPT
                           !.state = "stats",
                           !.collections = cols,
                           !.stats = [i \in 1..Len(cols) |-> "pending"],
                           !.entries = [i \in 1..Len(cols) |-> NoEntry]]
       \/ listing' = [listing EXCEPT !.state = "failed"]
    /\ UNCHANGED apart

\* The collStats command of the i-th collection ends and its callback
\* returns its entry: the numbers, or the error marker from the catch block.
StatsDone(i) ==
    /\ listing.state = "stats"
    /\ i \in 1..Len(listing.collections)
    /\ listing.stats[i] = "pending"
    /\ \/ \E stats \in StatsReplies :
            listing' = [listing EXCEPT
                           !.stats[i] = IF stats = NoStats THEN "empty" ELSE "ok",
                           !.entries[i] = StatsEntry(listing.collections[i], stats)]
       \/ listing' = [listing EXCEPT
                          !.stats[i] = "failed",
                          !.entries[i] = FailedEntry(listing.collections[i])]
    /\ UNCHANGED apart

\* await Promise.all(...) ends when every callback has returned: the case
\* returns { database: database || DATABASE_NAME, totalCollections:
\* collections.length, collections: collectionStats }.
ListCollectionsReturn ==
    /\ listing.state = "stats"
    /\ \A i \in 1..Len(listing.collections) : listing.stats[i] # "pending"
    /\ listing' = [listing EXCEPT
                      !.state = "returned",
                      !.resultDatabase = IF Truthy(listing.database)
                                         THEN listing.database.s[1] ELSE DATABASE_NAME,
                      !.totalCollections = Len(listing.collections),
                      !.resultCollections = listing.entries]
    /\ UNCHANGED apart

NextListing ==
    \/ ListCollectionsDone
    \/ \E i \in 1..MaxCollections : StatsDone(i)
    \/ ListCollectionsReturn

SpecListing == InitListing /\ [][NextListing]_vars

\* ------------------------------------------------------------ shutdown

\* The process exits at once, whether a client exists or not.
CleanupAwaits_never == FALSE

\* cleanup: if (this.client) await this.client.close()
CleanupAwaits == client # NULL

\* The serving state: everything but the shutdown state.
serving ==
    <<client, db, connected, pinged, connectCalls, pingCalls, pc, req, seen,
      calls, response, env, sampling, querying, listing>>

\* SIGINT arrives and its listener runs to its first await: with a client
\* it calls close() and waits, without one cleanup returns and the listener
\* calls process.exit(0).
Sigint ==
    /\ Running
    /\ signals < MaxSignals
    /\ signals' = signals + 1
    /\ IF CleanupAwaits
       THEN /\ closeCalls' = closeCalls + 1
            /\ UNCHANGED exited
       ELSE /\ exited' = "0"
            /\ UNCHANGED closeCalls
    /\ UNCHANGED <<closeEnded, serving>>

\* await this.client.close() ends: the listener calls process.exit(0), or
\* the rejection, which nothing handles, ends the process with code 1.
CloseDone ==
    /\ Running
    /\ closeEnded < closeCalls
    /\ closeEnded' = closeEnded + 1
    /\ \/ exited' = "0"
       \/ exited' = "1"
    /\ UNCHANGED <<signals, closeCalls, serving>>

\* A list-tools, list-prompts or get-prompt request arrives: its handler
\* awaits nothing and ends in the same stretch, without connectToMongoDB.
Respond(h, r) ==
    /\ Running
    /\ pc[h] = "idle"
    /\ r.kind \in StaticKinds
    /\ response' = [req |-> r, seen |-> ConnectionState, calls |-> <<>>,
                    result |-> StaticStep(r)]
    /\ UNCHANGED <<client, db, connected, pinged, connectCalls, pingCalls, pc,
                   req, seen, calls, outside>>

\* ------------------------------------------------------------ specifications

\* The requests without an await of the concurrent specification.
ConcStatic ==
    {ListTools, ListPrompts, GetPrompt("drop_collection"),
     [GetPrompt("analyze_collection") EXCEPT !.collection = Str(<<"orders">>)],
     [GetPrompt("find_recent_records") EXCEPT !.collection = Str(<<"orders">>)],
     GetPrompt("aggregate_summary")}

\* Requests arrive while others are in flight.
Next ==
    \E h \in Handlers :
        \/ \E r \in ConcRequests : Start(h, r)
        \/ \E r \in ConcStatic : Respond(h, r)
        \/ ConnectDone(h)
        \/ PingDone(h)
        \/ Resume(h)
        \/ StoreDone(h)
        \/ Store2Done(h)

Spec == Init /\ [][Next]_vars

\* The transport has written the response out to the caller.
Consume ==
    /\ Running
    /\ response # NoResponse
    /\ response' = NoResponse
    /\ UNCHANGED <<client, db, connected, pinged, connectCalls, pingCalls, pc,
                   req, seen, calls, outside>>

\* One caller that sends a request, with any argument bag, once it has the
\* response to the request before.
NextSeq ==
    \/ response = NoResponse /\ pc[1] = "idle" /\ \E r \in AllRequests : Start(1, r)
    \/ response = NoResponse /\ \E r \in StaticRequests : Respond(1, r)
    \/ ConnectDone(1)
    \/ PingDone(1)
    \/ Resume(1)
    \/ StoreDone(1)
    \/ Store2Done(1)
    \/ Consume

SpecSeq == Init /\ [][NextSeq]_vars

\* The connection targets the server may be started with: none (the default
\* applies), or a scheme, //, credentials and @ or neither, a host and a
\* tail; one tail has an @ of its own, in an option.
CredentialToks == {"user:secret", "admin:hunter2"}
TargetTails == {<<>>, <<"/", "mycompany">>, <<"/", "?", "appName=ops", "@", "home">>}
Target(scheme, creds, host, tail) == <<scheme, "//">> \o creds \o <<host>> \o tail
Targets ==
    {<<>>} \cup
    {Target(scheme, creds, host, tail) :
        scheme \in {"mongodb:", "mongodb+srv:"},
        creds \in {<<>>} \cup {<<c, "@">> : c \in CredentialToks},
        host \in {"localhost:27017", "db.example.com"},
        tail \in TargetTails}

\* The requests whose answer may carry the connection target.
TargetRequests ==
    {CallTool("mongodb_list_databases"), CallTool("mongodb_verify_connection"),
     CallTool("mongodb_query")}

InitTargets == env \in Targets /\ Constructed /\ NoSample /\ NoQuery /\ listing = NoListing

\* One caller, on a server started with any of the targets.
NextTargets ==
    \/ response = NoResponse /\ pc[1] = "idle" /\ \E r \in TargetRequests : Start(1, r)
    \/ ConnectDone(1)
    \/ PingDone(1)
    \/ Resume(1)
    \/ StoreDone(1)
    \/ Store2Done(1)
    \/ Consume

SpecTargets == InitTargets /\ [][NextTargets]_vars

\* One caller and the SIGINT signal, which may arrive at any moment. A
\* close() that was called ends at some time.
NextSigint ==
    \/ \E r \in ConcRequests : Start(1, r)
    \/ ConnectDone(1)
    \/ PingDone(1)
    \/ Resume(1)
    \/ StoreDone(1)
    \/ Store2Done(1)
    \/ Sigint
    \/ CloseDone

SpecSigint == Init /\ [][NextSigint]_vars /\ WF_vars(CloseDone)

\* ------------------------------------------------------------ claims

\* The handlers that have left connectToMongoDB and go on with their request.
PastEnsure == {h \in Handlers : pc[h] \in {"resume", "store1", "store2"}}

\* The handlers that await an operation they have dispatched to the store.
Dispatched == {h \in Handlers : pc[h] \in {"store1", "store2"}}

\* C1: however many handlers call connectToMongoDB while no connection
\* exists, client.connect() is called exactly once in total (once any handler
\* has called connectToMongoDB), and at most one attempt is in flight at any
\* time.
C1_SingleConnectAttempt ==
    /\ connectCalls <= 1
    /\ Cardinality(Connecting) <= 1
    /\ ((\E h \in Handlers : pc[h] # "idle")
        \/ response.req.kind \in {"call", "list_resources", "read_resource"})
          => connectCalls = 1

\* Two requests are in flight, the first has the one attempt in flight and the
\* second arrived while it was.
C1_Witness ==
    \E g, h \in Handlers :
        /\ g # h
        /\ pc[g] \in {"connect", "ping"}
        /\ seen[g] = "Unconnected"
        /\ pc[h] # "idle"
        /\ seen[h] = "Connecting"
        /\ connectCalls = 1

\* C2: a caller that saw the state Connecting does not leave ensureConnected,
\* and its handler dispatches nothing, while the attempt is in flight.
C2_WaitsForAttempt ==
    \A h \in PastEnsure : seen[h] = "Connecting" => Connecting = {}

\* C3: Failed is not terminal: a request that arrives in the state Failed
\* starts a new connect attempt.
C3_FailedRetries ==
    [][\A h \in Handlers :
          (ConnectionState = "Failed" /\ pc[h] = "idle" /\ pc'[h] # "idle")
              => connectCalls' = connectCalls + 1]_vars

\* C4: a call-operation request for which the connection is not established
\* dispatches no operation and is answered by the connection-failure envelope
\* with the sanitized target, the first such request and every later one.
C4_ShortCircuit ==
    /\ \A h \in Dispatched : req[h].kind = "call" => db # NULL
    /\ (response.req.kind = "call" /\ db = NULL) =>
          /\ response.result = ConnectionFailure(response.result.cause)
          /\ OperationCalls(response.calls) = {}

\* A step in which connectToMongoDB throws (its connect or its ping failed).
ConnectFails == \E h \in Handlers : pc[h] \in {"connect", "ping"} /\ pc'[h] = "idle"

\* C5: this.db is set only if a client exists and its connect and its ping
\* have succeeded; a failure of the connect or of the ping leaves this.db
\* unset, the state Failed, and raises the connection error with its cause.
C5_HandleOnlyAfterPing ==
    /\ [](db # NULL => (client # NULL /\ connected /\ pinged))
    /\ [][ConnectFails =>
            /\ db' = NULL
            /\ ConnectionState' = "Failed"
            /\ response'.result.message = "MongoDB connection failed"
            /\ response'.result.cause \in ConnectErrors
            /\ response'.result.outcome = "throw" \/ response'.result.isError]_vars

\* The ping of the one attempt failed after its connect had succeeded.
C5_Witness ==
    /\ Len(response.calls) = 2
    /\ response.calls[2].op = "ping"
    /\ response.result.message = "MongoDB connection failed"
    /\ connected
    /\ ~pinged
    /\ db = NULL
    /\ ConnectionState = "Failed"

\* A supplied text that JSON.parse rejects.
InvalidText(v) == v.t = "string" /\ ~JSONParses(v)

\* The request carries, for query, count, aggregate or distinct, a fragment
\* text that is syntactically invalid.
HasInvalidFragment(r) ==
    /\ r.kind = "call"
    /\ \/ r.name = "mongodb_query" /\
            (InvalidText(r.filter) \/ InvalidText(r.projection) \/ InvalidText(r.sort))
       \/ r.name \in {"mongodb_count", "mongodb_distinct"} /\ InvalidText(r.filter)
       \/ r.name = "mongodb_aggregate" /\ InvalidText(r.pipeline)

\* No fragment of the calls cs is a text.
AllDecoded(cs) ==
    \A i \in 1..Len(cs) :
        /\ cs[i].filter.t # "string"
        /\ cs[i].projection.t # "string"
        /\ cs[i].sort.t # "string"
        /\ cs[i].pipeline.t # "string"

\* C6: a request with a syntactically invalid fragment text never gets an
\* operation dispatched to the store and, once connected, ends in the
\* decoding failure; no fragment reaches the store as text.
C6_InvalidNeverReachesStore ==
    /\ \A h \in Handlers :
          /\ AllDecoded(calls[h])
          /\ HasInvalidFragment(req[h]) => h \notin Dispatched
    /\ HasInvalidFragment(response.req) =>
          /\ OperationCalls(response.calls) = {}
          /\ db # NULL =>
                response.result = ExecutionFailure(response.req.name, "SyntaxError", "")

UnknownCall(r) == r.kind = "call" /\ r.name \notin ToolNames

\* C8 (as amended): a call-operation with an unknown name is answered by the
\* execution failure that names the operation, whatever state it arrived in,
\* unless it arrived in Unconnected and its own connect attempt failed: then
\* it is answered by the connection failure.
C8_UnknownOperation ==
    UnknownCall(response.req) =>
        \/ response.result = ExecutionFailure(response.req.name, "Unknown tool", response.req.name)
        \/ /\ response.seen = "Unconnected"
           /\ response.calls # <<>>
           /\ response.result = ConnectionFailure(response.result.cause)

\* C8 as stated: an unknown name is always answered by the failure that names
\* the operation.
C8_AlwaysUnknownOperation ==
    UnknownCall(response.req) =>
        response.result = ExecutionFailure(response.req.name, "Unknown tool", response.req.name)

\* An unknown name that arrived during another request's connect attempt was
\* answered by the failure that names it.
C8_Witness ==
    /\ UnknownCall(response.req)
    /\ response.seen = "Connecting"
    /\ response.result = ExecutionFailure(response.req.name, "Unknown tool", response.req.name)

\* The address matches the pattern and names another database.
OtherNamespace(r) ==
    r.kind = "read_resource" /\ UriMatches(r.uri) /\ UriDbName(r.uri) # DATABASE_NAME

\* C9: read-resource on an address of another namespace fails with the
\* address error and makes no driver call at all (no connect, no ping, no
\* stats, no find).
C9_MismatchNoStoreCall ==
    /\ \A h \in Handlers : OtherNamespace(req[h]) => calls[h] = <<>>
    /\ OtherNamespace(response.req) =>
          /\ response.calls = <<>>
          /\ response.result =
                Raised("Database does not match connected database", UriDbName(response.req.uri))

\* C10: the limit handed to find is 100 when the supplied limit is absent or
\* not positive and the supplied limit otherwise; the skip handed to find is
\* 0 when no skip is supplied.
C10_LimitAndSkipDefaults ==
    \A h \in Handlers :
        \A i \in 1..Len(calls[h]) :
            (req[h].name = "mongodb_query" /\ calls[h][i].op = "find") =>
                /\ calls[h][i].limit =
                      IF req[h].limit = Undef \/ req[h].limit.n <= 0
                      THEN Num(100) ELSE req[h].limit
                /\ req[h].skip = Undef => calls[h][i].skip = Num(0)

RECURSIVE ElementsAreObjects(_, _)
\* Every element of the JSON array whose first element starts at token i is
\* an object.
ElementsAreObjects(toks, i) ==
    /\ Tok(toks, i) = "{"
    /\ LET j == ParseValue(toks, i) IN
       Tok(toks, j) = "," => ElementsAreObjects(toks, j + 1)

\* The decoded value is an array whose elements are all objects.
ArrayOfObjects(v) ==
    /\ v.t = "array"
    /\ Tok(v.s, 2) # "]" => ElementsAreObjects(v.s, 2)

\* A supplied text that JSON.parse accepts and that is no object (for a
\* pipeline: no array of objects).
WrongShape(v, pipeline) ==
    /\ v.t = "string"
    /\ v.s # <<>>
    /\ JSONParses(v)
    /\ IF pipeline THEN ~ArrayOfObjects(JSONParse(v)) ELSE JSONParse(v).t # "object"

\* The request carries, for query, count, aggregate or distinct, a fragment
\* text of the wrong top-level shape.
HasWrongShape(r) ==
    /\ r.kind = "call"
    /\ \/ r.name = "mongodb_query" /\
            (WrongShape(r.filter, FALSE) \/ WrongShape(r.projection, FALSE)
                \/ WrongShape(r.sort, FALSE))
       \/ r.name \in {"mongodb_count", "mongodb_distinct"} /\ WrongShape(r.filter, FALSE)
       \/ r.name = "mongodb_aggregate" /\ WrongShape(r.pipeline, TRUE)

\* C11: a fragment text that parses but has the wrong top-level shape (no
\* object for filter, projection or sort; no array of objects for a pipeline)
\* is rejected before any store call: the request dispatches no operation,
\* and no find, countDocuments, distinct or aggregate receives a filter,
\* projection or sort that is no object, or a pipeline that is no array of
\* objects.
C11_WrongShapeRejected ==
    /\ \A h \in Handlers :
          /\ HasWrongShape(req[h]) => h \notin Dispatched
          /\ \A i \in 1..Len(calls[h]) :
                LET c == calls[h][i] IN
                /\ c.op \in {"find", "countDocuments", "distinct"} =>
                      /\ c.filter.t = "object"
                      /\ c.projection.t \in {"undefined", "object"}
                      /\ c.sort.t \in {"undefined", "object"}
                /\ c.op = "aggregate" => ArrayOfObjects(c.pipeline)
    /\ HasWrongShape(response.req) =>
          /\ OperationCalls(response.calls) = {}
          /\ response.result.isError

\* C12: a fragment that is not supplied yields its default and no decoding
\* failure: find, countDocuments and distinct receive the empty filter {},
\* find receives no projection and the empty sort {}; a decoding failure of
\* query, count or distinct comes from a supplied text only. Only an
\* aggregate without its pipeline fails, and it dispatches no operation.
C12_AbsentYieldsDefault ==
    /\ \A h \in Handlers :
          /\ \A i \in 1..Len(calls[h]) :
                LET c == calls[h][i]
                    r == req[h]
                IN (r.kind = "call" /\ c.op \in {"find", "countDocuments", "distinct"}) =>
                      /\ r.filter = Undef => c.filter = EmptyObject
                      /\ c.op = "find" =>
                            /\ r.projection = Undef => c.projection = Undef
                            /\ r.sort = Undef => c.sort = EmptyObject
          /\ (req[h].name = "mongodb_aggregate" /\ req[h].pipeline = Undef)
                => h \notin Dispatched
    /\ (response.req.name \in {"mongodb_query", "mongodb_count", "mongodb_distinct"}
        /\ response.result.message = "SyntaxError") => HasInvalidFragment(response.req)
    /\ (response.req.name = "mongodb_aggregate" /\ response.req.pipeline = Undef) =>
          /\ OperationCalls(response.calls) = {}
          /\ response.result.isError
          /\ db # NULL =>
                response.result = ExecutionFailure("mongodb_aggregate", "SyntaxError", "")

\* A query without filter, projection and sort was sent to the store with
\* the defaults and succeeded.
C12_Witness ==
    /\ response.req = CallTool("mongodb_query")
    /\ response.result = Success("mongodb_query", FALSE)
    /\ \E i \in 1..Len(response.calls) :
          /\ response.calls[i].op = "find"
          /\ response.calls[i].filter = EmptyObject
          /\ response.calls[i].projection = Undef
          /\ response.calls[i].sort = EmptyObject

\* The target embeds credentials before an @, and what they are.
HasCredentials(u) == Len(u) >= 4 /\ u[2] = "//" /\ u[4] = "@"
Credentials(u) == u[3]

\* The targets u and v both embed credentials and differ in nothing else.
SameButCredentials(u, v) ==
    /\ HasCredentials(u)
    /\ HasCredentials(v)
    /\ [u EXCEPT ![3] = ""] = [v EXCEPT ![3] = ""]

\* The response is one of the three outputs that carry the connection
\* target: the result of list_databases, the result of verify_connection,
\* the connection-failure diagnostic.
CarriesTarget ==
    /\ response.result.outcome = "return"
    /\ \/ response.result.error = "MongoDB Connection Failed"
       \/ /\ ~response.result.isError
          /\ response.req.name \in {"mongodb_list_databases", "mongodb_verify_connection"}

\* C13: whatever target with credentials before an @ the server is started
\* with, the connection-target field of the list_databases result, of the
\* verify_connection result and of the connection-failure diagnostic does not
\* contain the credentials; the fixed placeholder stands in their place, and
\* the field is the one every target that differs in the credentials only
\* yields.
C13_CredentialsRedacted ==
    (CarriesTarget /\ HasCredentials(MONGODB_URI)) =>
        LET f == response.result.uri IN
        /\ \A i \in 1..Len(f) : f[i] # Credentials(MONGODB_URI)
        /\ SubSeq(f, 1, 4) = <<MONGODB_URI[1], "//", "***", "@">>
        /\ \A v \in Targets : SameButCredentials(MONGODB_URI, v) => f = SanitizeUri(v)

\* The server was started with credentials in its target and has answered
\* list_databases with its result.
C13_Witness ==
    /\ HasCredentials(MONGODB_URI)
    /\ response.req.name = "mongodb_list_databases"
    /\ ~response.result.isError
    /\ response.result.uri # <<>>

\* C14: every request, of whatever kind, that fails is answered by a returned
\* envelope flagged as a failure (no handler lets an error out), and an
\* envelope that is not flagged carries no partial result: every store call
\* made for its request has succeeded.
C14_UniformFailureEnvelope ==
    response.result.outcome # "none" =>
        /\ response.result.outcome = "return"
        /\ ~response.result.isError => ~response.result.partial

\* C15: the process exits on SIGINT only after the close of the client has
\* ended, whenever a client exists (the connection being in the making,
\* established or failed), and after a SIGINT the process does exit.
C15_ReleaseBeforeExit ==
    /\ []((exited # "no" /\ client # NULL) => closeEnded >= 1)
    /\ []((exited # "no" /\ client = NULL) => closeCalls = 0)
    /\ (signals > 0) ~> (exited # "no")

\* SIGINT arrived while the connect attempt was in flight, the close of the
\* client resolved and the process exited with code 0.
C15_Witness ==
    /\ exited = "0"
    /\ pc[1] \in {"connect", "ping"}
    /\ closeCalls = 1
    /\ closeEnded = 1

\* C16: once the state is Connected, a request that arrives goes on at once,
\* with no connect and no ping issued for it, and no step changes the client,
\* the handle, the number of connect attempts or the number of pings.
C16_IdempotentOnceConnected ==
    [][ConnectionState = "Connected" =>
          /\ UNCHANGED <<client, db, connectCalls, pingCalls>>
          /\ \A h \in Handlers :
                (pc[h] = "idle" /\ pc'[h] # "idle") =>
                    /\ pc'[h] = "resume"
                    /\ calls'[h] = <<>>]_vars

\* A request that arrived in the state Connected was answered with its
\* result after one store call of its own, and there was one connect attempt
\* and one ping in all.
C16_Witness ==
    /\ response.seen = "Connected"
    /\ ~response.result.isError
    /\ Len(response.calls) = 1
    /\ response.calls[1].op \notin {"connect", "ping"}
    /\ connectCalls = 1
    /\ pingCalls = 1
    /\ db = DB

RECURSIVE Flatten(_, _)
\* The properties of the first n documents of docs, in the order in which
\* forEach visits them.
Flatten(docs, n) ==
    IF n = 0 THEN <<>> ELSE Flatten(docs, n - 1) \o OwnKeys(docs[n])

\* The properties of the documents inferSchema has visited.
Visited == Flatten(documents, processed)

\* The values of the field key among the properties fs that are neither null
\* nor undefined, in order.
ExampleValues(fs, key) ==
    LET Counts(e) == e.key = key /\ e.value.t \notin {"null", "undefined"}
        es == SelectSeq(fs, Counts)
    IN [i \in 1..Len(es) |-> es[i].value]

\* C17: after every prefix of the sample, the example list of every field of
\* the schema has at most 3 entries.
C17_AtMostThreeExamples ==
    \A i \in 1..Len(schema) : Len(schema[i].examples) <= 3

\* A field has its three examples and the sample had a fourth value for it,
\* which was not added.
C17_Witness ==
    /\ inferred = "returned"
    /\ \E i \in 1..Len(schema) :
          /\ Len(schema[i].examples) = 3
          /\ Len(ExampleValues(Visited, schema[i].key)) = 4

\* The property has a value (its value is not undefined).
Present(e) == e.value.t # "undefined"

RECURSIVE FirstKeys(_, _)
\* The keys of the first n properties of fs in the order of their first
\* occurrence.
FirstKeys(fs, n) ==
    IF n = 0 THEN <<>>
    ELSE LET ks == FirstKeys(fs, n - 1) IN
         IF \E i \in 1..Len(ks) : ks[i] = fs[n].key THEN ks ELSE Append(ks, fs[n].key)

\* The value of the first property of fs with the key.
FirstValue(fs, key) ==
    fs[CHOOSE i \in 1..Len(fs) :
          fs[i].key = key /\ \A j \in 1..(i - 1) : fs[j].key # key].value

\* C18: after every prefix of the sample, the schema has one field for every
\* field that had a value (absent and undefined values are left out), in the
\* order in which the fields were first met; the type of a field is one of
\* the six classes and is the class of its first value, whatever the later
\* documents hold.
C18_TypeFromFirstOccurrence ==
    LET fs == SelectSeq(Visited, Present) IN
    /\ inferred # "thrown"
    /\ [i \in 1..Len(schema) |-> schema[i].key] = FirstKeys(fs, Len(fs))
    /\ \A i \in 1..Len(schema) :
          /\ schema[i].type \in {"array", "null", "object", "number", "string", "boolean"}
          /\ schema[i].type = TypeOf(FirstValue(fs, schema[i].key))

\* The first n entries of the sequence s, all of them when it has fewer.
FirstN(s, n) == SubSeq(s, 1, IF Len(s) < n THEN Len(s) ELSE n)

\* The keys of the properties fs.
KeysOf(fs) == {fs[i].key : i \in 1..Len(fs)}

\* C19: after every prefix of the sample, every field that had a value other
\* than null and undefined is in the schema, and the example list of a field
\* is the first three (or fewer) of its values other than null and undefined,
\* in the order of the sample; the sample of the one document
\* {a: 1, b: "x", c: [1, 2]} yields a: number [1], b: string ["x"],
\* c: array [[1, 2]].
C19_ExamplesAreFirstValues ==
    /\ inferred # "thrown"
    /\ \A key \in KeysOf(Visited) :
          ExampleValues(Visited, key) # <<>> => key \in KeysOf(schema)
    /\ \A i \in 1..Len(schema) :
          schema[i].examples = FirstN(ExampleValues(Visited, schema[i].key), 3)
    /\ (inferred = "returned"
        /\ documents = <<(<<Field("a", Num(1)), Field("b", Str(<<"x">>)),
                           Field("c", Arr(<<"[", "1", ",", "2", "]">>))>>)>>) =>
          schema = <<[key |-> "a", type |-> "number", examples |-> <<Num(1)>>],
                     [key |-> "b", type |-> "string", examples |-> <<Str(<<"x">>)>>],
                     [key |-> "c", type |-> "array",
                      examples |-> <<Arr(<<"[", "1", ",", "2", "]">>)>>]>>

\* The filter text is not supplied or is the text of an object.
ValidFilter(v) ==
    \/ v = Undef
    \/ v.t = "string" /\ v.s # <<>> /\ JSONParses(v) /\ JSONParse(v).t = "object"

\* C20: a query with a valid filter and a positive limit L returns at most L
\* documents, each of which satisfies the filter: the matching documents of
\* the collection without the first skip of them, up to L; and the count it
\* returns is the number of documents in results.
C20_QueryResults ==
    (reply.state = "returned" /\ ValidFilter(query.filter)
     /\ query.limit.t = "number" /\ query.limit.n > 0) =>
        LET L == query.limit.n
            f == IF query.filter = Undef THEN EmptyObject ELSE JSONParse(query.filter)
            k == IF query.skip = Undef THEN 0 ELSE query.skip.n
            Hit(d) == Matches(d, f)
            hits == SelectSeq(content, Hit)
        IN /\ Len(reply.results) <= L
           /\ \A i \in 1..Len(reply.results) : Matches(reply.results[i], f)
           /\ reply.results = FirstN(SubSeq(hits, k + 1, Len(hits)), L)
           /\ reply.count = Len(reply.results)

\* Of three shipped documents and one pending one, the query for shipped
\* with skip 1 and limit 1 has returned the second shipped document.
C20_Witness ==
    /\ reply.state = "returned"
    /\ query.filter = Str(<<"{", "\"status\"", ":", "\"shipped\"", "}">>)
    /\ query.limit = Num(1)
    /\ query.skip = Num(1)
    /\ Len(content) = 4
    /\ content[1].status = "\"pending\""
    /\ \A i \in 2..4 : content[i].status = "\"shipped\""
    /\ reply.count = 1
    /\ reply.results = <<content[3]>>

\* The elements of the sequence s.
Range(s) == {s[i] : i \in 1..Len(s)}

\* C21: list-tools, list-prompts and get-prompt make no driver call and no
\* connect attempt and leave the client, the handle and the connection state
\* as they are, whatever the state they arrive in; list-tools and
\* list-prompts return their static catalog, get-prompt returns the text of
\* the template with the supplied collection in it for a known name and
\* throws Unknown prompt, with the name, for any other.
C21_StaticHandlersTouchNothing ==
    /\ [](response.req.kind \in StaticKinds =>
            LET r == response.req
                e == response.result
            IN /\ response.calls = <<>>
               /\ r.kind = "list_tools" =>
                     e.outcome = "return" /\ ~e.isError /\ Range(e.catalog) = ToolNames
               /\ r.kind = "list_prompts" =>
                     e.outcome = "return" /\ ~e.isError /\ e.catalog = PromptNames
               /\ (r.kind = "get_prompt" /\ r.name \in Range(PromptNames)) =>
                     /\ e.outcome = "return"
                     /\ ~e.isError
                     /\ e.text # <<>>
                     /\ r.collection.t = "string" => Range(r.collection.s) \subseteq Range(e.text)
               /\ (r.kind = "get_prompt" /\ r.name \notin Range(PromptNames)) =>
                     e = Raised("Unknown prompt", r.name))
    /\ [][(response' # response /\ response'.req.kind \in StaticKinds) =>
            /\ UNCHANGED <<client, db, connected, pinged, connectCalls, pingCalls,
                           pc, req, seen, calls, closeCalls>>
            /\ ConnectionState' = ConnectionState]_vars

\* A get-prompt with an unknown name arrived while the connect attempt of
\* another request was in flight, and was answered while it still was.
C21_Witness ==
    /\ response.req = GetPrompt("drop_collection")
    /\ response.seen = "Connecting"
    /\ Connecting # {}
    /\ response.result.outcome = "throw"

\* C22: in list_collections the failure of the collStats command of a
\* collection does not fail the operation (only the failure of
\* listCollections does) and leaves the entries of the other collections as
\* they are: the result has one entry for every enumerated collection, in
\* the order of the enumeration, totalCollections is the number of entries,
\* an entry whose command failed has the error marker and no count, size and
\* avgObjSize, and every other entry has the three numbers and no marker.
C22_StatsFailureIsLocal ==
    /\ listing.state = "failed" => listing.collections = <<>>
    /\ listing.state = "returned" =>
          LET es == listing.resultCollections
              cols == listing.collections
          IN /\ Len(es) = Len(cols)
             /\ listing.totalCollections = Len(es)
             /\ \A i \in 1..Len(es) :
                   /\ es[i].name = cols[i].name
                   /\ es[i].type = cols[i].type
                   /\ listing.stats[i] = "failed" =>
                         /\ es[i].error = "Could not retrieve stats"
                         /\ es[i].count = Undef
                         /\ es[i].size = Undef
                         /\ es[i].avgObjSize = Undef
                   /\ listing.stats[i] # "failed" =>
                         /\ es[i].error = ""
                         /\ es[i].count.t = "number"
                         /\ es[i].size.t = "number"
                         /\ es[i].avgObjSize.t = "number"
                   /\ listing.stats[i] = "ok" => es[i].count = Num(2)

\* Of two enumerated collections the command of the first failed and that of
\* the second succeeded, and the operation returned both entries.
C22_Witness ==
    /\ listing.state = "returned"
    /\ listing.totalCollections = 2
    /\ listing.stats = <<"failed", "ok">>
    /\ listing.resultCollections[1].error = "Could not retrieve stats"
    /\ listing.resultCollections[2].count = Num(2)

\* C23: whenever connectToMongoDB has returned normally to a handler, the
\* handle and the client the handler goes on to use are set: no handler
\* reads a property of a null this.db or this.client, and no response
\* reports such a TypeError.
C23_HandleSetWhenUsed ==
    /\ \A h \in Handlers : pc[h] = "resume" => HandlerStep(req[h]) # NullDeref
    /\ response.result.message # "TypeError"

====
